---- MODULE Spec2Model ----
(***************************************************************************)
(* Wallet / referral / admin-approval bookkeeping of the Express server:   *)
(* MemStorage (server/storage.ts), the deposit route (server/routes.ts),   *)
(* the admin route and the register handler (server/auth.ts).              *)
(*                                                                         *)
(* Register and login requests leave the turn of the event loop where they *)
(* await the password hashing or the sheet, so up to MaxProcs of them       *)
(* overlap in every specification; the clock is read at every              *)
(* createTransaction and may have moved on since the reading before.       *)
(*                                                                         *)
(* Spec     : a deposit or admin request runs its store calls in one turn. *)
(* SpecBody : Spec, and bodies the handlers accept that Spec does not send *)
(*            (a negative amount, an amount that is no number, a status     *)
(*            other than approved / rejected).                             *)
(* SpecConc : up to MaxProcs deposit / admin requests overlap; a request    *)
(*            gives up control at each await of the handler and of the     *)
(*            MemStorage calls it makes, everything between two awaits is  *)
(*            one step, and the steps of the requests interleave freely.   *)
(* SpecAuth : the register / login requests alone.                         *)
(*                                                                         *)
(* Decimal columns are strings in the store (schema.ts:9,18); a string is  *)
(* modelled as a sequence of one-character strings, and Number.toString /  *)
(* parseFloat are computed digit by digit.  A Number is a whole number or   *)
(* NaN; fractions and Infinity are not among the inputs.                   *)
(***************************************************************************)
EXTENDS Integers, Sequences, FiniteSets, TLC

\* ------------------------------------------------------------------ bounds
MaxUsers == 2
MaxDeposits == 2
\* a deposit request writes at most three records: the deposit and two bonuses
MaxTx == 3 * MaxDeposits
MaxStatusUpdates == 2
MaxProcs == 2

\* ------------------------------------------------------- program constants
ADMIN_USERNAME == "noobru"
REFERRAL_BONUS == 30
REFERRAL_THRESHOLD == 100

\* ------------------------------------------------------------ input sets
Usernames == {"noobru", "bob"}
Passwords == {"pw"}
\* the values generateReferCode draws, named in the order of their first draw
ReferCodeSeq == <<"USER00A1", "USER00B2">>
ReferCodes == { ReferCodeSeq[k] : k \in DOMAIN ReferCodeSeq }
NoCode == "null"
DepositAmounts == {50, 150}
StatusInputs == {"approved", "rejected"}

\* ------------------------------------------------- Number <-> string
Digits == <<"0", "1", "2", "3", "4", "5", "6", "7", "8", "9">>

RECURSIVE DigitsOf(_)
DigitsOf(n) ==
    IF n < 10 THEN <<Digits[n + 1]>>
    ELSE Append(DigitsOf(n \div 10), Digits[(n % 10) + 1])

\* NaN is kept as an integer no sum of the model reaches; every +, >= and
\* toString of the code on a Number goes through the operators below, which
\* treat it as IEEE 754 does
NaN == 0 - 1000000000

\* a + b of two Numbers
Add(a, b) == IF a = NaN \/ b = NaN THEN NaN ELSE a + b

\* a >= b of two Numbers: false when either is NaN
GreaterOrEqual(a, b) == a # NaN /\ b # NaN /\ a >= b

\* Number.prototype.toString for a whole number or NaN
NumberToString(n) ==
    IF n = NaN THEN <<"N", "a", "N">>
    ELSE IF n < 0 THEN <<"-">> \o DigitsOf(0 - n) ELSE DigitsOf(n)

DigitChars == {"0", "1", "2", "3", "4", "5", "6", "7", "8", "9"}
IsDigit(c) == c \in DigitChars

DigitValue(c) ==
    CASE c = "0" -> 0 [] c = "1" -> 1 [] c = "2" -> 2 [] c = "3" -> 3 [] c = "4" -> 4
      [] c = "5" -> 5 [] c = "6" -> 6 [] c = "7" -> 7 [] c = "8" -> 8 [] c = "9" -> 9

\* the value of the digits s starts with
RECURSIVE ParseDigits(_, _)
ParseDigits(s, acc) ==
    IF s = <<>> \/ ~IsDigit(Head(s)) THEN acc
    ELSE ParseDigits(Tail(s), acc * 10 + DigitValue(Head(s)))

\* parseFloat on the strings of the model: a sign, if any, and the digits
\* that follow it are read as a whole number and the rest of the string is
\* ignored; a string with no digit in that place is NaN
parseFloat(s) ==
    LET negative == s # <<>> /\ Head(s) = "-"
        digits == IF negative THEN Tail(s) ELSE s
    IN  IF digits = <<>> \/ ~IsDigit(Head(digits)) THEN NaN
        ELSE IF negative THEN 0 - ParseDigits(digits, 0)
        ELSE ParseDigits(digits, 0)

AmountInputs == { NumberToString(n) : n \in DepositAmounts }

\* ------------------------------------------------------------------ state
VARIABLES
    users,                  \* MemStorage.users : id -> User
    transactions,           \* MemStorage.transactions : id -> Transaction
    currentId,              \* MemStorage.currentId
    currentTransactionId,   \* MemStorage.currentTransactionId
    statusUpdates,          \* status updates the admin route has carried out
    now,                    \* the last reading of the clock a record carries
    procs                   \* the requests that have left their first turn, by slot

vars == <<users, transactions, currentId, currentTransactionId, statusUpdates, now,
          procs>>

EmptyMap == [x \in {} |-> x]

\* the store as one value, with the exception flag of the running handler;
\* ticks says, for each reading of the clock the handler is going to make,
\* whether the clock has moved on since the reading before (none: it has not)
Store ==
    [users |-> users, transactions |-> transactions, currentId |-> currentId,
     currentTransactionId |-> currentTransactionId, now |-> now, ticks |-> <<>>,
     thrown |-> FALSE]

\* the store at the start of a request during which the clock moves as ticks
StoreAt(ticks) == [Store EXCEPT !.ticks = ticks]

\* what the clock may do over the readings of a request that ends in store
\* s: the request reads the clock once for each record it writes
ClockReads(s) == [1..(s.currentTransactionId - currentTransactionId) -> {0, 1}]

\* Map iteration is insertion order, and ids are inserted in increasing order
FirstId(S) == CHOOSE i \in S : \A j \in S : i <= j

\* --------------------------------------------------------- MemStorage
getUserByUsername(s, username) ==
    LET hits == { i \in DOMAIN s.users : s.users[i].username = username }
    IN  IF hits = {} THEN 0 ELSE FirstId(hits)

getUserByReferCode(s, referCode) ==
    LET hits == { i \in DOMAIN s.users : s.users[i].referCode = referCode }
    IN  IF hits = {} THEN 0 ELSE FirstId(hits)

\* the values a call of generateReferCode may give in store s: a code some
\* user already has, or the next one in the order of first draws
generateReferCode(s) ==
    LET used == { k \in DOMAIN ReferCodeSeq :
                    \E i \in DOMAIN s.users : s.users[i].referCode = ReferCodeSeq[k] }
    IN  { ReferCodeSeq[k] :
            k \in { j \in DOMAIN ReferCodeSeq : j <= Cardinality(used) + 1 } }

\* code is the value generateReferCode() draws
createUser(s, username, password, referredBy, code) ==
    LET id == s.currentId
        user == [id |-> id, username |-> username, password |-> password,
                 walletBalance |-> <<"0">>, referCode |-> code,
                 referredBy |-> referredBy, referralRewardClaimed |-> "no"]
    IN  [s EXCEPT !.currentId = id + 1, !.users = s.users @@ (id :> user)]

\* mutant: a missing user is passed over without an error
updateWalletBalance_NoCheck(s, userId, amount) ==
    IF s.thrown \/ userId \notin DOMAIN s.users THEN s
    ELSE LET user == s.users[userId]
             newBalance == Add(parseFloat(user.walletBalance), amount)
             updatedUser == [user EXCEPT !.walletBalance = NumberToString(newBalance)]
         IN  [s EXCEPT !.users[userId] = updatedUser]

updateWalletBalance(s, userId, amount) ==
    IF s.thrown THEN s
    ELSE IF userId \notin DOMAIN s.users THEN [s EXCEPT !.thrown = TRUE]
    ELSE LET user == s.users[userId]
             newBalance == Add(parseFloat(user.walletBalance), amount)
             updatedUser == [user EXCEPT !.walletBalance = NumberToString(newBalance)]
         IN  [s EXCEPT !.users[userId] = updatedUser]

\* new Date(): the readings are whole milliseconds and only their order
\* shows in the store, so a reading is kept as its rank among the readings
\* the records carry
ReadClock(s) ==
    IF s.ticks # <<>> /\ Head(s.ticks) = 1 /\ DOMAIN s.transactions # {}
    THEN s.now + 1 ELSE s.now

createTransaction(s, userId, amount, utrNumber, type) ==
    IF s.thrown THEN s
    ELSE LET id == s.currentTransactionId
             createdAt == ReadClock(s)
             transaction == [id |-> id, userId |-> userId,
                             amount |-> NumberToString(amount),
                             utrNumber |-> utrNumber, status |-> "pending",
                             createdAt |-> createdAt, type |-> type]
         IN  [s EXCEPT !.currentTransactionId = id + 1,
                       !.transactions = s.transactions @@ (id :> transaction),
                       !.now = createdAt,
                       !.ticks = IF s.ticks = <<>> THEN <<>> ELSE Tail(s.ticks)]

\* mutant: the guard without the test of referralRewardClaimed
ReferrerOf_IgnoreClaimed(s, newUserId) ==
    IF newUserId \notin DOMAIN s.users THEN 0
    ELSE IF s.users[newUserId].referredBy = NoCode THEN 0
    ELSE getUserByReferCode(s, s.users[newUserId].referredBy)

\* the guard of processReferralReward: the referrer's id, or 0 for a return
ReferrerOf(s, newUserId) ==
    IF newUserId \notin DOMAIN s.users THEN 0
    ELSE IF s.users[newUserId].referredBy = NoCode THEN 0
    ELSE IF s.users[newUserId].referralRewardClaimed = "yes" THEN 0
    ELSE getUserByReferCode(s, s.users[newUserId].referredBy)

\* mutant: the referrer's bonus record is written for the referee
processReferralReward_BonusToReferee(s, newUserId) ==
    IF s.thrown \/ ReferrerOf(s, newUserId) = 0 THEN s
    ELSE LET user == s.users[newUserId]
             referrer == s.users[ReferrerOf(s, newUserId)]
             s1 == updateWalletBalance(s, referrer.id, REFERRAL_BONUS)
             s2 == createTransaction(s1, user.id, REFERRAL_BONUS,
                                     "REF_" \o user.username, "referral_bonus")
             s3 == updateWalletBalance(s2, user.id, REFERRAL_BONUS)
             s4 == createTransaction(s3, user.id, REFERRAL_BONUS,
                                     "REF_BONUS", "referral_bonus")
             updatedUser == [user EXCEPT !.referralRewardClaimed = "yes"]
         IN  IF s4.thrown THEN s4 ELSE [s4 EXCEPT !.users[user.id] = updatedUser]

\* mutant: the reward is paid and the flag is never set
processReferralReward_NoFlag(s, newUserId) ==
    IF s.thrown \/ ReferrerOf(s, newUserId) = 0 THEN s
    ELSE LET user == s.users[newUserId]
             referrer == s.users[ReferrerOf(s, newUserId)]
             s1 == updateWalletBalance(s, referrer.id, REFERRAL_BONUS)
             s2 == createTransaction(s1, referrer.id, REFERRAL_BONUS,
                                     "REF_" \o user.username, "referral_bonus")
             s3 == updateWalletBalance(s2, user.id, REFERRAL_BONUS)
         IN  createTransaction(s3, user.id, REFERRAL_BONUS,
                               "REF_BONUS", "referral_bonus")

processReferralReward(s, newUserId) ==
    IF s.thrown \/ ReferrerOf(s, newUserId) = 0 THEN s
    ELSE LET user == s.users[newUserId]
             referrer == s.users[ReferrerOf(s, newUserId)]
             s1 == updateWalletBalance(s, referrer.id, REFERRAL_BONUS)
             s2 == createTransaction(s1, referrer.id, REFERRAL_BONUS,
                                     "REF_" \o user.username, "referral_bonus")
             s3 == updateWalletBalance(s2, user.id, REFERRAL_BONUS)
             s4 == createTransaction(s3, user.id, REFERRAL_BONUS,
                                     "REF_BONUS", "referral_bonus")
             \* the spread of the user object read at the top of the call
             updatedUser == [user EXCEPT !.referralRewardClaimed = "yes"]
         IN  IF s4.thrown THEN s4 ELSE [s4 EXCEPT !.users[user.id] = updatedUser]

\* the ids of seq with id put behind every entry that is not older than it:
\* one step of the stable sort by (a, b) => b.createdAt - a.createdAt
InsertNewestFirst(s, seq, id) ==
    LET ahead == { k \in 1..Len(seq) :
                     s.transactions[seq[k]].createdAt >= s.transactions[id].createdAt }
        n == IF ahead = {} THEN 0 ELSE CHOOSE k \in ahead : \A j \in ahead : j <= k
    IN  SubSeq(seq, 1, n) \o <<id>> \o SubSeq(seq, n + 1, Len(seq))

\* Array.prototype.sort over the ids, taken in the order of the Map
RECURSIVE SortNewestFirst(_, _, _)
SortNewestFirst(s, ids, seq) ==
    IF ids = {} THEN seq
    ELSE LET id == FirstId(ids)
         IN  SortNewestFirst(s, ids \ {id}, InsertNewestFirst(s, seq, id))

getTransactions(s, userId) ==
    LET owned == { t \in DOMAIN s.transactions : s.transactions[t].userId = userId }
        ids == SortNewestFirst(s, owned, <<>>)
    IN  [k \in 1..Len(ids) |-> s.transactions[ids[k]]]

\* user?.username of getUser(userId)
UsernameOf(s, userId) ==
    IF userId \in DOMAIN s.users THEN s.users[userId].username ELSE "undefined"

\* the records in status pending, newest first, each with username added
getPendingTransactions(s) ==
    LET pending == { t \in DOMAIN s.transactions : s.transactions[t].status = "pending" }
        ids == SortNewestFirst(s, pending, <<>>)
    IN  [k \in 1..Len(ids) |->
            s.transactions[ids[k]] @@
                [username |-> UsernameOf(s, s.transactions[ids[k]].userId)]]

\* reduce((sum, t) => sum + parseFloat(t.amount), sum) over the transactions
\* ids, in the order of the Map
RECURSIVE SumAmounts(_, _, _)
SumAmounts(s, ids, sum) ==
    IF ids = {} THEN sum
    ELSE LET t == FirstId(ids)
         IN  SumAmounts(s, ids \ {t}, Add(sum, parseFloat(s.transactions[t].amount)))

\* the characters of a decimal string joined into one string, the form in
\* which usernames, refer codes and referredBy are held
RECURSIVE JoinChars(_)
JoinChars(seq) ==
    IF seq = <<>> THEN "" ELSE Head(seq) \o JoinChars(Tail(seq))

getReferralStats(s, userId) ==
    LET referredUsers == { i \in DOMAIN s.users :
                             s.users[i].referredBy = JoinChars(NumberToString(userId)) }
        referralBonuses == { t \in DOMAIN s.transactions :
                               /\ s.transactions[t].userId = userId
                               /\ s.transactions[t].type = "referral_bonus"
                               /\ s.transactions[t].status = "approved" }
    IN  [totalInvites |-> Cardinality(referredUsers),
         successfulReferrals |-> Cardinality(referralBonuses),
         totalEarned |-> SumAmounts(s, referralBonuses, 0)]

\* mutant: only the approved transactions of type deposit are summed
getAdminStats_DepositsOnly(s) ==
    LET approvedTransactions ==
            { t \in DOMAIN s.transactions :
                /\ s.transactions[t].status = "approved"
                /\ s.transactions[t].type = "deposit" }
    IN  [totalUsers |-> Cardinality(DOMAIN s.users),
         totalDeposits |-> NumberToString(SumAmounts(s, approvedTransactions, 0))]

\* totalUsers and totalDeposits of the answer (todayDeposits reads the clock)
getAdminStats(s) ==
    LET approvedTransactions ==
            { t \in DOMAIN s.transactions : s.transactions[t].status = "approved" }
    IN  [totalUsers |-> Cardinality(DOMAIN s.users),
         totalDeposits |-> NumberToString(SumAmounts(s, approvedTransactions, 0))]

\* mutant: every approval credits, whatever the status was
updateTransactionStatus_AlwaysCredit(s, transactionId, status) ==
    IF s.thrown THEN s
    ELSE IF transactionId \notin DOMAIN s.transactions THEN [s EXCEPT !.thrown = TRUE]
    ELSE LET transaction == s.transactions[transactionId]
             s1 == [s EXCEPT !.transactions[transactionId].status = status]
         IN  IF status = "approved"
             THEN updateWalletBalance(s1, transaction.userId, parseFloat(transaction.amount))
             ELSE s1

\* mutant: the update stamps the record with the time of the update
updateTransactionStatus_Restamp(s, transactionId, status) ==
    IF s.thrown THEN s
    ELSE IF transactionId \notin DOMAIN s.transactions THEN [s EXCEPT !.thrown = TRUE]
    ELSE LET transaction == s.transactions[transactionId]
             s1 == [s EXCEPT !.transactions[transactionId].status = status,
                             !.transactions[transactionId].createdAt = s.now]
         IN  IF status = "approved" /\ transaction.status # "approved"
             THEN updateWalletBalance(s1, transaction.userId, parseFloat(transaction.amount))
             ELSE s1

updateTransactionStatus(s, transactionId, status) ==
    IF s.thrown THEN s
    ELSE IF transactionId \notin DOMAIN s.transactions THEN [s EXCEPT !.thrown = TRUE]
    ELSE LET transaction == s.transactions[transactionId]
             s1 == [s EXCEPT !.transactions[transactionId].status = status]
         IN  IF status = "approved" /\ transaction.status # "approved"
             THEN updateWalletBalance(s1, transaction.userId, parseFloat(transaction.amount))
             ELSE s1

\* ------------------------------------------------------- route handlers
\* mutant: the reward runs whatever the amount is
DepositHandler_AlwaysReward(s, userId, amount, utrNumber) ==
    LET parsedAmount == parseFloat(amount)
        s1 == createTransaction(s, userId, parsedAmount, utrNumber, "deposit")
        s2 == updateWalletBalance(s1, userId, parsedAmount)
    IN  processReferralReward(s2, userId)

\* POST /api/balance, from the parse of the body to the last store call
DepositHandler(s, userId, amount, utrNumber) ==
    LET parsedAmount == parseFloat(amount)
        s1 == createTransaction(s, userId, parsedAmount, utrNumber, "deposit")
        s2 == updateWalletBalance(s1, userId, parsedAmount)
    IN  IF GreaterOrEqual(parsedAmount, REFERRAL_THRESHOLD)
        THEN processReferralReward(s2, userId)
        ELSE s2

\* mutant: the route credits whatever the status of the body is
AdminUpdateHandler_CreditAnyStatus(s, id, status) ==
    LET s1 == updateTransactionStatus(s, id, status)
    IN  IF s1.thrown THEN s1
        ELSE LET transaction == s1.transactions[id]
                 amount == parseFloat(transaction.amount)
                 s2 == updateWalletBalance(s1, transaction.userId, amount)
             IN  IF GreaterOrEqual(amount, REFERRAL_THRESHOLD)
                 THEN processReferralReward(s2, transaction.userId)
                 ELSE s2

\* POST /api/admin/update-transaction/:id, after the admin check
AdminUpdateHandler(s, id, status) ==
    LET s1 == updateTransactionStatus(s, id, status)
    IN  IF s1.thrown \/ status # "approved" THEN s1
        ELSE LET transaction == s1.transactions[id]
                 amount == parseFloat(transaction.amount)
                 s2 == updateWalletBalance(s1, transaction.userId, amount)
             IN  IF GreaterOrEqual(amount, REFERRAL_THRESHOLD)
                 THEN processReferralReward(s2, transaction.userId)
                 ELSE s2

\* the hash stored for a password (the salt is not modelled)
hashPassword(password) == <<"hash", password>>

\* mutant: the referral code of the body is not looked up
RegisterRoute_NoCodeCheck(s, username, password, referralCode, code) ==
    IF getUserByUsername(s, username) # 0 THEN [code |-> 400, store |-> s]
    ELSE [code |-> 201,
          store |-> createUser(s, username, hashPassword(password), referralCode, code)]

\* POST /api/register run to its answer: the status code and the store
RegisterRoute(s, username, password, referralCode, code) ==
    LET referrer == getUserByReferCode(s, referralCode)
    IN  IF getUserByUsername(s, username) # 0 THEN [code |-> 400, store |-> s]
        ELSE IF referralCode # NoCode /\ referrer = 0 THEN [code |-> 400, store |-> s]
        ELSE [code |-> 201,
              store |-> createUser(s, username, hashPassword(password),
                                   IF referralCode # NoCode
                                   THEN s.users[referrer].referCode ELSE NoCode,
                                   code)]

\* mutant: every authenticated session passes the admin check
IsAdmin_AnyUser(s, actor) == actor \in DOMAIN s.users

\* the admin check of the three admin routes, on the session user
\* (actor 0: the request has no session)
IsAdmin(s, actor) ==
    actor \in DOMAIN s.users /\ s.users[actor].username = ADMIN_USERNAME

\* GET /api/admin/stats
AdminStatsRoute(s, actor) ==
    IF ~IsAdmin(s, actor) THEN [code |-> 401, store |-> s, body |-> <<>>]
    ELSE [code |-> 200, store |-> s, body |-> <<getAdminStats(s)>>]

\* GET /api/admin/pending-transactions
AdminPendingRoute(s, actor) ==
    IF ~IsAdmin(s, actor) THEN [code |-> 401, store |-> s, body |-> <<>>]
    ELSE [code |-> 200, store |-> s, body |-> <<getPendingTransactions(s)>>]

\* POST /api/admin/update-transaction/:id
AdminUpdateRoute(s, actor, id, status) ==
    IF ~IsAdmin(s, actor) THEN [code |-> 401, store |-> s]
    ELSE LET s1 == AdminUpdateHandler(s, id, status)
         IN  [code |-> IF s1.thrown THEN 500 ELSE 200, store |-> s1]

\* what a handler leaves in the store: everything written before a throw stays
Commit(s) ==
    /\ users' = s.users
    /\ transactions' = s.transactions
    /\ currentId' = s.currentId
    /\ currentTransactionId' = s.currentTransactionId
    /\ now' = s.now

\* the deposit requests stay within the bound of the model
Fits(s) ==
    Cardinality({ t \in DOMAIN s.transactions :
                    s.transactions[t].type = "deposit" }) <= MaxDeposits

Init ==
    /\ users = EmptyMap
    /\ transactions = EmptyMap
    /\ currentId = 1
    /\ currentTransactionId = 1
    /\ statusUpdates = 0
    /\ now = 0
    /\ procs = EmptyMap

\* ------------------------------------------ overlapping register / login
\* Up to MaxProcs register / login requests overlap.  A request leaves the
\* turn where it awaits the password hashing (scrypt), the comparison of the
\* passwords (scrypt) or a fetch of the sheet; the store calls in between run
\* in one step.
FreeSlots == (1..MaxProcs) \ DOMAIN procs

ADMIN_PASSWORD == "achara"
LoginPasswords == {"pw", ADMIN_PASSWORD}
\* the bodies of POST /api/login: the admin password comes with the admin name
LoginInputs ==
    { b \in Usernames \X LoginPasswords : b[2] = ADMIN_PASSWORD => b[1] = ADMIN_USERNAME }

isAdminCredentials(username, password) ==
    username = ADMIN_USERNAME /\ password = ADMIN_PASSWORD

comparePasswords(supplied, stored) == stored = hashPassword(supplied)

\* admin records that the request went through the branch of the verify
\* callback that isAdminCredentials guards (auth.ts:104-113); userId is the
\* id of the user the request holds while it awaits its last turn
AuthProc(op, pc, username, password, referredBy) ==
    [op |-> op, pc |-> pc, username |-> username, password |-> password,
     referredBy |-> referredBy, userId |-> 0, session |-> 0, admin |-> FALSE]

\* the request holds the user userId and leaves the turn at pc
AuthAwait(p, pc, password, userId) ==
    procs' = [procs EXCEPT ![p] = [AuthProc(procs[p].op, pc, "", password, NoCode)
                                      EXCEPT !.userId = userId,
                                             !.admin = procs[p].admin]]

\* the request is answered and its locals are gone; session is the id
\* req.login / done was given
AuthDone(p, session) ==
    procs' = [procs EXCEPT ![p] = [AuthProc("", "done", "", "", NoCode)
                                      EXCEPT !.session = session,
                                             !.admin = procs[p].admin]]

\* auth.ts:153-172  the tests of POST /api/register, up to the await of
\* hashPassword inside the argument of createUser; a request answered 400
\* has returned in its first turn, before any write, and is a stuttering step
RegisterStart ==
    \E username \in Usernames, password \in Passwords,
       referralCode \in ReferCodes \cup {NoCode} :
        /\ FreeSlots # {}
        /\ getUserByUsername(Store, username) = 0
        /\ referralCode # NoCode => getUserByReferCode(Store, referralCode) # 0
        /\ procs' = procs @@ (FirstId(FreeSlots) :>
                AuthProc("register", "reg_hash", username, password, referralCode))
        /\ UNCHANGED <<users, transactions, currentId, currentTransactionId, statusUpdates, now>>

\* auth.ts:170-183  the hash is there: createUser, up to the await of the
\* fetch in updateReferralData
RegisterCreate ==
    \E p \in DOMAIN procs, code \in generateReferCode(Store) :
        /\ procs[p].pc = "reg_hash"
        /\ currentId <= MaxUsers
        /\ Commit(createUser(Store, procs[p].username, hashPassword(procs[p].password),
                             procs[p].referredBy, code))
        /\ AuthAwait(p, "reg_fetch", "", currentId)
        /\ UNCHANGED statusUpdates

\* auth.ts:185-188  the fetch is over (updateReferralData catches its
\* failure): req.login(user) and the answer 201
RegisterAnswer ==
    \E p \in DOMAIN procs :
        /\ procs[p].pc = "reg_fetch"
        /\ AuthDone(p, procs[p].userId)
        /\ UNCHANGED <<users, transactions, currentId, currentTransactionId, statusUpdates, now>>

\* auth.ts:101-117  the verify callback of POST /api/login up to its first
\* await that leaves the turn: hashPassword for a missing admin user, the
\* fetch of the sheet for everyone else
LoginStart ==
    \E b \in LoginInputs :
        /\ FreeSlots # {}
        /\ LET username == b[1]
               password == b[2]
               p == FirstId(FreeSlots)
               adminUser == getUserByUsername(Store, username)
           IN  IF isAdminCredentials(username, password)
               THEN IF adminUser # 0
                    THEN procs' = procs @@ (p :>
                            [AuthProc("", "done", "", "", NoCode)
                                EXCEPT !.session = adminUser, !.admin = TRUE])
                    ELSE procs' = procs @@ (p :>
                            [AuthProc("login", "login_hash", username, password, NoCode)
                                EXCEPT !.admin = TRUE])
               ELSE procs' = procs @@ (p :>
                       AuthProc("login", "login_sheets", username, password, NoCode))
        /\ UNCHANGED <<users, transactions, currentId, currentTransactionId, statusUpdates, now>>

\* auth.ts:117-135  the sheet has answered (isValidGoogleSheets is what it
\* said): the lookup of the user, up to the await of hashPassword for a
\* missing user or of comparePasswords for a stored one
LoginSheets ==
    \E p \in DOMAIN procs, isValidGoogleSheets \in BOOLEAN :
        /\ procs[p].pc = "login_sheets"
        /\ LET user == getUserByUsername(Store, procs[p].username)
           IN  IF ~isValidGoogleSheets THEN AuthDone(p, 0)
               ELSE IF user = 0 THEN procs' = [procs EXCEPT ![p].pc = "login_hash"]
               ELSE AuthAwait(p, "login_compare", procs[p].password, user)
        /\ UNCHANGED <<users, transactions, currentId, currentTransactionId, statusUpdates, now>>

\* auth.ts:135-139  the comparison is there: done(null, false) or
\* done(null, user) with the user read before the await
LoginCompare ==
    \E p \in DOMAIN procs :
        /\ procs[p].pc = "login_compare"
        /\ IF comparePasswords(procs[p].password, users[procs[p].userId].password)
           THEN AuthDone(p, procs[p].userId)
           ELSE AuthDone(p, 0)
        /\ UNCHANGED <<users, transactions, currentId, currentTransactionId, statusUpdates, now>>

\* auth.ts:108-113, 125-134  the hash is there: createUser; the admin branch
\* goes on to done(null, adminUser) in the same turn, the sheet branch awaits
\* the fetch in updateReferralData
LoginCreate ==
    \E p \in DOMAIN procs, code \in generateReferCode(Store) :
        /\ procs[p].pc = "login_hash"
        /\ currentId <= MaxUsers
        /\ Commit(createUser(Store, procs[p].username, hashPassword(procs[p].password),
                             NoCode, code))
        /\ IF isAdminCredentials(procs[p].username, procs[p].password)
           THEN AuthDone(p, currentId)
           ELSE AuthAwait(p, "login_fetch", "", currentId)
        /\ UNCHANGED statusUpdates

\* auth.ts:139  the fetch is over (updateReferralData catches its failure):
\* done(null, user)
LoginAnswer ==
    \E p \in DOMAIN procs :
        /\ procs[p].pc = "login_fetch"
        /\ AuthDone(p, procs[p].userId)
        /\ UNCHANGED <<users, transactions, currentId, currentTransactionId, statusUpdates, now>>

NextAuth ==
    \/ RegisterStart
    \/ RegisterCreate
    \/ RegisterAnswer
    \/ LoginStart
    \/ LoginSheets
    \/ LoginCompare
    \/ LoginCreate
    \/ LoginAnswer

\* SpecAuth: the register / login requests alone
SpecAuth == Init /\ [][NextAuth]_vars

\* ------------------------------------------------ deposits and approvals
\* POST /api/balance by the session user userId
Deposit ==
    \E userId \in DOMAIN users, amount \in AmountInputs :
        /\ Fits(DepositHandler(Store, userId, amount, "UTR"))
        /\ \E ticks \in ClockReads(DepositHandler(Store, userId, amount, "UTR")) :
               Commit(DepositHandler(StoreAt(ticks), userId, amount, "UTR"))
        /\ UNCHANGED <<statusUpdates, procs>>

\* POST /api/admin/update-transaction/:id by the session user actor; a
\* request answered 401 has returned before any store call and is a
\* stuttering step
AdminUpdateTransaction ==
    \E actor \in DOMAIN users, id \in 1..currentTransactionId, status \in StatusInputs :
        /\ statusUpdates < MaxStatusUpdates
        /\ IsAdmin(Store, actor)
        /\ LET r == AdminUpdateRoute(Store, actor, id, status)
           IN  /\ Fits(r.store)
               /\ \E ticks \in ClockReads(r.store) :
                      Commit(AdminUpdateRoute(StoreAt(ticks), actor, id, status).store)
               /\ statusUpdates' = IF r.code = 200 THEN statusUpdates + 1
                                   ELSE statusUpdates
        /\ UNCHANGED procs

Next ==
    \/ RegisterStart
    \/ RegisterCreate
    \/ RegisterAnswer
    \/ LoginStart
    \/ LoginSheets
    \/ LoginCompare
    \/ LoginCreate
    \/ LoginAnswer
    \/ Deposit
    \/ AdminUpdateTransaction

Spec == Init /\ [][Next]_vars

\* ------------------------------------------------ other accepted bodies
\* SpecBody: the requests of Spec, and with them bodies that the handlers
\* accept and Spec does not send.  insertTransactionSchema takes any string
\* for amount (schema.ts:18, 40-43), and the admin route hands
\* req.body.status to the store unchecked.
\* BodyAmounts is a sample of the accepted strings: the amounts of Spec, a
\* negative whole number, and two strings parseFloat reads as NaN (text that
\* is no number, and the empty string).  Fractions and Infinity are not in
\* the sample.
NotANumber == {<<"a", "b", "c">>, <<>>}
BodyAmounts == AmountInputs \cup {NumberToString(0 - 50)} \cup NotANumber
BodyStatuses == StatusInputs \cup {"cancelled", "pending"}

\* POST /api/balance by the session user userId, amount one of BodyAmounts
DepositBody ==
    \E userId \in DOMAIN users, amount \in BodyAmounts :
        /\ Fits(DepositHandler(Store, userId, amount, "UTR"))
        /\ \E ticks \in ClockReads(DepositHandler(Store, userId, amount, "UTR")) :
               Commit(DepositHandler(StoreAt(ticks), userId, amount, "UTR"))
        /\ UNCHANGED <<statusUpdates, procs>>

\* POST /api/admin/update-transaction/:id, status any string of the body
AdminUpdateBody ==
    \E actor \in DOMAIN users, id \in 1..currentTransactionId, status \in BodyStatuses :
        /\ statusUpdates < MaxStatusUpdates
        /\ IsAdmin(Store, actor)
        /\ LET r == AdminUpdateRoute(Store, actor, id, status)
           IN  /\ Fits(r.store)
               /\ \E ticks \in ClockReads(r.store) :
                      Commit(AdminUpdateRoute(StoreAt(ticks), actor, id, status).store)
               /\ statusUpdates' = IF r.code = 200 THEN statusUpdates + 1
                                   ELSE statusUpdates
        /\ UNCHANGED procs

NextBody ==
    \/ RegisterStart
    \/ RegisterCreate
    \/ RegisterAnswer
    \/ LoginStart
    \/ LoginSheets
    \/ LoginCompare
    \/ LoginCreate
    \/ LoginAnswer
    \/ DepositBody
    \/ AdminUpdateBody

SpecBody == Init /\ [][NextBody]_vars

\* --------------------------------------------- overlapping requests
\* A request in flight: its handler, the label it resumes at, and its locals.
\* user / referrer / uwbUser hold the object a read returned (<<>> : undefined),
\* so a later spread of it writes back what was read, not what the map holds.
Snapshot(id) == IF id \in DOMAIN users THEN <<users[id]>> ELSE <<>>

NewProc(op, pc, userId, amount) ==
    [op |-> op, pc |-> pc, userId |-> userId, amount |-> amount,
     user |-> <<>>, referrer |-> <<>>,
     uwbAmount |-> 0, uwbUser |-> <<>>, ret |-> "done"]

\* the slots of the deposit / admin requests come after those of the
\* register / login requests
FreeRequestSlots == ((MaxProcs + 1)..(2 * MaxProcs)) \ DOMAIN procs

\* the request is answered: its locals are gone
Finish(p) ==
    procs' = [procs EXCEPT ![p] = NewProc("", "done", 0, 0)]

Goto(p, pc) ==
    IF pc = "done" THEN Finish(p) ELSE procs' = [procs EXCEPT ![p].pc = pc]

\* the call updateWalletBalance(userId, amount) up to its await: getUser reads
CallUpdateWalletBalance(p, proc, userId, amount, ret) ==
    procs' = [procs EXCEPT ![p] = [proc EXCEPT !.pc = "uwb_write",
                                               !.uwbAmount = amount,
                                               !.uwbUser = Snapshot(userId),
                                               !.ret = ret]]

\* the call processReferralReward(userId) up to its first await: getUser reads
CallProcessReferralReward(p, proc, userId) ==
    procs' = [procs EXCEPT ![p] = [proc EXCEPT !.pc = "prr_check",
                                               !.userId = userId,
                                               !.user = Snapshot(userId)]]

\* the records of SpecConc are bounded by the number of requests it starts
AppendTransaction(userId, amount, utrNumber, type) ==
    \E tick \in {0, 1} :
        LET s == createTransaction(StoreAt(<<tick>>), userId, amount, utrNumber, type)
        IN  /\ transactions' = s.transactions
            /\ currentTransactionId' = s.currentTransactionId
            /\ now' = s.now

\* POST /api/balance up to its first await: createTransaction has run
StartDeposit ==
    \E userId \in DOMAIN users, amount \in AmountInputs :
        /\ FreeRequestSlots # {}
        /\ AppendTransaction(userId, parseFloat(amount), "UTR", "deposit")
        /\ procs' = procs @@ (FirstId(FreeRequestSlots) :>
                        NewProc("deposit", "dep_credit", userId, parseFloat(amount)))
        /\ UNCHANGED <<users, currentId, statusUpdates>>

\* POST /api/admin/update-transaction/:id up to its first await:
\* updateTransactionStatus has set the status and, for a new approval,
\* called updateWalletBalance
StartAdminUpdate ==
    \E actor \in DOMAIN users, id \in DOMAIN transactions, status \in StatusInputs :
        /\ FreeRequestSlots # {}
        /\ IsAdmin(Store, actor)
        /\ LET transaction == transactions[id]
               amount == parseFloat(transaction.amount)
               proc == NewProc(status, "upd_credit", transaction.userId, amount)
               p == FirstId(FreeRequestSlots)
           IN  /\ transactions' = [transactions EXCEPT ![id].status = status]
               /\ statusUpdates' = statusUpdates + 1
               /\ IF status = "approved" /\ transaction.status # "approved"
                  THEN procs' = procs @@ (p :>
                          [proc EXCEPT !.pc = "uwb_write", !.uwbAmount = amount,
                                       !.uwbUser = Snapshot(transaction.userId),
                                       !.ret = "upd_credit"])
                  ELSE procs' = procs @@ (p :> proc)
        /\ UNCHANGED <<users, currentId, currentTransactionId, now>>

\* routes.ts:34  the route calls updateWalletBalance
DepCredit(p) ==
    /\ procs[p].pc = "dep_credit"
    /\ CallUpdateWalletBalance(p, procs[p], procs[p].userId, procs[p].amount, "dep_reward")
    /\ UNCHANGED <<users, transactions, currentId, currentTransactionId, statusUpdates, now>>

\* storage.ts:89-94  updateWalletBalance resumes with the user it read
UwbWrite(p) ==
    /\ procs[p].pc = "uwb_write"
    /\ IF procs[p].uwbUser = <<>>
       THEN /\ Finish(p)
            /\ UNCHANGED users
       ELSE LET user == procs[p].uwbUser[1]
                newBalance == Add(parseFloat(user.walletBalance), procs[p].uwbAmount)
                updatedUser == [user EXCEPT !.walletBalance = NumberToString(newBalance)]
            IN  /\ users' = [users EXCEPT ![user.id] = updatedUser]
                /\ Goto(p, procs[p].ret)
    /\ UNCHANGED <<transactions, currentId, currentTransactionId, statusUpdates, now>>

\* the threshold test of both routes and the call of processReferralReward
RewardOrDone(p) ==
    IF GreaterOrEqual(procs[p].amount, REFERRAL_THRESHOLD)
    THEN CallProcessReferralReward(p, procs[p], procs[p].userId)
    ELSE Finish(p)

\* routes.ts:40-41
DepReward(p) ==
    /\ procs[p].pc = "dep_reward"
    /\ RewardOrDone(p)
    /\ UNCHANGED <<users, transactions, currentId, currentTransactionId, statusUpdates, now>>

\* admin route: the credit after updateTransactionStatus has returned
UpdCredit(p) ==
    /\ procs[p].pc = "upd_credit"
    /\ IF procs[p].op = "approved"
       THEN CallUpdateWalletBalance(p, procs[p], procs[p].userId, procs[p].amount,
                                    "upd_reward")
       ELSE Finish(p)
    /\ UNCHANGED <<users, transactions, currentId, currentTransactionId, statusUpdates, now>>

\* admin route: the threshold test
UpdReward(p) ==
    /\ procs[p].pc = "upd_reward"
    /\ RewardOrDone(p)
    /\ UNCHANGED <<users, transactions, currentId, currentTransactionId, statusUpdates, now>>

\* storage.ts:144-146  the guard, on the user read, and the referrer lookup
PrrCheck(p) ==
    /\ procs[p].pc = "prr_check"
    /\ IF procs[p].user = <<>> THEN Finish(p)
       ELSE LET user == procs[p].user[1]
            IN  IF user.referredBy = NoCode \/ user.referralRewardClaimed = "yes"
                THEN Finish(p)
                ELSE procs' = [procs EXCEPT
                        ![p].pc = "prr_referrer",
                        ![p].referrer = Snapshot(getUserByReferCode(Store, user.referredBy))]
    /\ UNCHANGED <<users, transactions, currentId, currentTransactionId, statusUpdates, now>>

\* storage.ts:147-150
PrrReferrer(p) ==
    /\ procs[p].pc = "prr_referrer"
    /\ IF procs[p].referrer = <<>> THEN Finish(p)
       ELSE CallUpdateWalletBalance(p, procs[p], procs[p].referrer[1].id,
                                    REFERRAL_BONUS, "prr_tx1")
    /\ UNCHANGED <<users, transactions, currentId, currentTransactionId, statusUpdates, now>>

\* storage.ts:151-156
PrrTx1(p) ==
    /\ procs[p].pc = "prr_tx1"
    /\ AppendTransaction(procs[p].referrer[1].id, REFERRAL_BONUS,
                         "REF_" \o procs[p].user[1].username, "referral_bonus")
    /\ Goto(p, "prr_credit2")
    /\ UNCHANGED <<users, currentId, statusUpdates>>

\* storage.ts:159
PrrCredit2(p) ==
    /\ procs[p].pc = "prr_credit2"
    /\ CallUpdateWalletBalance(p, procs[p], procs[p].user[1].id, REFERRAL_BONUS, "prr_tx2")
    /\ UNCHANGED <<users, transactions, currentId, currentTransactionId, statusUpdates, now>>

\* storage.ts:160-165
PrrTx2(p) ==
    /\ procs[p].pc = "prr_tx2"
    /\ AppendTransaction(procs[p].user[1].id, REFERRAL_BONUS, "REF_BONUS", "referral_bonus")
    /\ Goto(p, "prr_flag")
    /\ UNCHANGED <<users, currentId, statusUpdates>>

\* storage.ts:168-169
PrrFlag(p) ==
    /\ procs[p].pc = "prr_flag"
    /\ LET user == procs[p].user[1]
       IN  users' = [users EXCEPT ![user.id] =
                        [user EXCEPT !.referralRewardClaimed = "yes"]]
    /\ Finish(p)
    /\ UNCHANGED <<transactions, currentId, currentTransactionId, statusUpdates, now>>

Resume ==
    \E p \in DOMAIN procs :
        \/ DepCredit(p)
        \/ UwbWrite(p)
        \/ DepReward(p)
        \/ UpdCredit(p)
        \/ UpdReward(p)
        \/ PrrCheck(p)
        \/ PrrReferrer(p)
        \/ PrrTx1(p)
        \/ PrrCredit2(p)
        \/ PrrTx2(p)
        \/ PrrFlag(p)

NextConc ==
    \/ RegisterStart
    \/ RegisterCreate
    \/ RegisterAnswer
    \/ LoginStart
    \/ LoginSheets
    \/ LoginCompare
    \/ LoginCreate
    \/ LoginAnswer
    \/ StartDeposit
    \/ StartAdminUpdate
    \/ Resume

SpecConc == Init /\ [][NextConc]_vars

\* ---------------------------------------------------------------- claims
Balance(s, i) == parseFloat(s.users[i].walletBalance)

\* the ids of the records getPendingTransactions returns
PendingIds(s) ==
    LET list == getPendingTransactions(s)
    IN  { list[k].id : k \in 1..Len(list) }

\* the transactions a call added to the store
NewTx(before, after) == DOMAIN after.transactions \ DOMAIN before.transactions

IsBonus(s, t, owner, amount) ==
    /\ s.transactions[t].type = "referral_bonus"
    /\ s.transactions[t].userId = owner
    /\ parseFloat(s.transactions[t].amount) = amount

\* C1: updateTransactionStatus(t.id, "approved") on a transaction that is
\* already approved leaves the wallet balance of every user unchanged.
C1_ReapproveKeepsBalances ==
    \A t \in DOMAIN transactions :
        transactions[t].status = "approved" =>
            LET s == updateTransactionStatus(Store, t, "approved")
            IN  /\ ~s.thrown
                /\ \A i \in DOMAIN users : Balance(s, i) = Balance(Store, i)

\* an approved transaction with a credited owner exists, and the call on it
\* has returned with the status still approved
C1_Witness ==
    \E t \in DOMAIN transactions :
        /\ transactions[t].status = "approved"
        /\ Balance(Store, transactions[t].userId) > 0
        /\ updateTransactionStatus(Store, t, "approved").transactions[t].status = "approved"

\* C2: the admin's approval of a pending transaction t through the route adds
\* exactly t.amount to the owner's balance (no referral payout in the request).
C2_ApprovalCreditsAmountOnce ==
    \A t \in DOMAIN transactions :
        LET owner == transactions[t].userId
            amount == parseFloat(transactions[t].amount)
            s == AdminUpdateHandler(Store, t, "approved")
        IN  (/\ transactions[t].status = "pending"
             /\ \E a \in DOMAIN users : IsAdmin(Store, a)
             /\ (amount < REFERRAL_THRESHOLD \/ ReferrerOf(Store, owner) = 0))
            => Balance(s, owner) = Balance(Store, owner) + amount

\* C3: the admin's approval, through the route, of a transaction that is
\* already approved changes no user's wallet balance.
C3_RouteReapproveKeepsBalances ==
    \A t \in DOMAIN transactions :
        (/\ transactions[t].status = "approved"
         /\ \E a \in DOMAIN users : IsAdmin(Store, a))
        => LET s == AdminUpdateHandler(Store, t, "approved")
           IN  \A i \in DOMAIN users : Balance(s, i) = Balance(Store, i)

\* C4: once a transaction is approved or rejected its status never changes.
C4_TerminalStatus ==
    [][\A t \in DOMAIN transactions :
          transactions[t].status \in {"approved", "rejected"}
              => transactions'[t].status = transactions[t].status]_vars

\* C5: when processReferralReward fires for a referee, the referee's balance
\* rises by exactly 30 and a referral_bonus transaction of 30 owned by the
\* referee is recorded; a referred user with balance 0 who deposits 150 ends
\* with balance 180.
C5_RefereeGetsBonus ==
    \A u \in DOMAIN users :
        /\ ReferrerOf(Store, u) # 0 =>
               LET s == processReferralReward(Store, u)
               IN  /\ Balance(s, u) = Balance(Store, u) + REFERRAL_BONUS
                   /\ \E t \in NewTx(Store, s) : IsBonus(s, t, u, REFERRAL_BONUS)
        /\ (ReferrerOf(Store, u) # 0 /\ Balance(Store, u) = 0) =>
               Balance(DepositHandler(Store, u, NumberToString(150), "UTR"), u) = 180

\* C6: when processReferralReward fires for a referee, the referrer (the user
\* getUserByReferCode finds for the referee's referredBy) gains exactly 30 and
\* exactly one new referral_bonus transaction of amount 30.
C6_ReferrerGetsBonus ==
    \A u \in DOMAIN users :
        ReferrerOf(Store, u) # 0 =>
            LET r == getUserByReferCode(Store, users[u].referredBy)
                s == processReferralReward(Store, u)
            IN  /\ users[r].referCode = users[u].referredBy
                /\ Balance(s, r) = Balance(Store, r) + REFERRAL_BONUS
                /\ Cardinality({ t \in NewTx(Store, s) :
                                   s.transactions[t].userId = r }) = 1
                /\ \A t \in NewTx(Store, s) :
                       s.transactions[t].userId = r => IsBonus(s, t, r, REFERRAL_BONUS)

\* the reward has been paid: the referrer holds the 30 and its bonus record
C6_Witness ==
    \E u \in DOMAIN users, t \in DOMAIN transactions :
        /\ users[u].referralRewardClaimed = "yes"
        /\ transactions[t].utrNumber = "REF_" \o users[u].username
        /\ IsBonus(Store, t, getUserByReferCode(Store, users[u].referredBy),
                   REFERRAL_BONUS)
        /\ Balance(Store, transactions[t].userId) >= REFERRAL_BONUS

\* the bonus records paid to the referee u, and to the referrer on behalf of u
RefereeBonuses(s, u) ==
    { t \in DOMAIN s.transactions :
        /\ s.transactions[t].type = "referral_bonus"
        /\ s.transactions[t].userId = u
        /\ s.transactions[t].utrNumber = "REF_BONUS" }

ReferrerBonuses(s, u) ==
    LET utrNumber == "REF_" \o s.users[u].username
    IN  { t \in DOMAIN s.transactions :
            /\ s.transactions[t].type = "referral_bonus"
            /\ s.transactions[t].utrNumber = utrNumber }

QualifyingDeposits(s, u) ==
    { t \in DOMAIN s.transactions :
        /\ s.transactions[t].type = "deposit"
        /\ s.transactions[t].userId = u
        /\ parseFloat(s.transactions[t].amount) >= REFERRAL_THRESHOLD }

\* the REF_<username> records name the referee by username only: where
\* overlapping registrations have stored one name twice (C15) they are counted
\* against the referees of that name
Namesakes(s, u) ==
    { v \in DOMAIN s.users :
        /\ s.users[v].username = s.users[u].username
        /\ s.users[v].referredBy # NoCode }

RewardedNamesakes(s, u) ==
    { v \in Namesakes(s, u) : s.users[v].referralRewardClaimed = "yes" }

PaidOnce(s, u) ==
    /\ Cardinality(RefereeBonuses(s, u)) <= 1
    /\ Cardinality(ReferrerBonuses(s, u)) <= Cardinality(RewardedNamesakes(s, u))

\* C7: with every deposit and admin request run in one turn, the reward is paid exactly once
\* per referee: after the referee's first deposit of 100 or more the flag is
\* yes, one bonus record of the referee exists and one of the referrer for each
\* rewarded referee of that name; no later deposit or approval adds one.
C7_RewardPaidOnce ==
    /\ \A u \in DOMAIN users :
           /\ PaidOnce(Store, u)
           /\ (users[u].referredBy # NoCode /\ QualifyingDeposits(Store, u) # {}) =>
                  /\ users[u].referralRewardClaimed = "yes"
                  /\ Cardinality(RefereeBonuses(Store, u)) = 1
                  /\ Cardinality(ReferrerBonuses(Store, u))
                         = Cardinality(RewardedNamesakes(Store, u))
           /\ \A amount \in AmountInputs :
                  PaidOnce(DepositHandler(Store, u, amount, "UTR"), u)
    /\ \A t \in DOMAIN transactions, status \in StatusInputs :
           LET s == AdminUpdateHandler(Store, t, status)
           IN  \A u \in DOMAIN users : PaidOnce(s, u)

\* a referee whose reward is paid has had a qualifying deposit approved, which
\* ran processReferralReward a second time
C7_Witness ==
    \E u \in DOMAIN users, t \in DOMAIN transactions :
        /\ users[u].referralRewardClaimed = "yes"
        /\ t \in QualifyingDeposits(Store, u)
        /\ transactions[t].status = "approved"
        /\ Cardinality(RefereeBonuses(Store, u)) = 1

\* C8: referralRewardClaimed never goes from yes back to no, whatever
\* operations follow or overlap.
C8_ClaimedNeverReset ==
    [][\A u \in DOMAIN users :
          users[u].referralRewardClaimed = "yes"
              => users'[u].referralRewardClaimed = "yes"]_vars

\* C9: processReferralReward(userId) changes nothing in the store when the
\* user does not exist, has no referredBy, has already claimed the reward, or
\* no user has the referCode named by referredBy; a second call right after a
\* call that paid is a no-op.
C9_RewardNoOp ==
    /\ \A u \in 0..(MaxUsers + 1) :
           (\/ u \notin DOMAIN users
            \/ users[u].referredBy = NoCode
            \/ users[u].referralRewardClaimed = "yes"
            \/ \A r \in DOMAIN users : users[r].referCode # users[u].referredBy)
           => processReferralReward(Store, u) = Store
    /\ \A u \in DOMAIN users :
           ReferrerOf(Store, u) # 0 =>
               LET s == processReferralReward(Store, u)
               IN  /\ s # Store
                   /\ processReferralReward(s, u) = s

\* the store holds a referee whose reward is paid and a user without
\* referredBy
C9_Witness ==
    /\ \E u \in DOMAIN users :
           users[u].referralRewardClaimed = "yes" /\ RefereeBonuses(Store, u) # {}
    /\ \E u \in DOMAIN users : users[u].referredBy = NoCode

\* C10: a referral_bonus transaction is never in status pending.
C10_BonusNeverPending ==
    \A t \in DOMAIN transactions :
        transactions[t].type = "referral_bonus" => t \notin PendingIds(Store)

\* C11: when the admin rejects a pending transaction through the route, its
\* status becomes rejected, every wallet balance is unchanged, no transaction
\* is created and no referralRewardClaimed changes, whatever the amount.
C11_RejectFrame ==
    \A t \in DOMAIN transactions :
        (/\ transactions[t].status = "pending"
         /\ \E a \in DOMAIN users : IsAdmin(Store, a))
        => LET s == AdminUpdateHandler(Store, t, "rejected")
           IN  /\ ~s.thrown
               /\ s.transactions[t].status = "rejected"
               /\ DOMAIN s.transactions = DOMAIN transactions
               /\ s.currentTransactionId = currentTransactionId
               /\ DOMAIN s.users = DOMAIN users
               /\ \A i \in DOMAIN users :
                      /\ Balance(s, i) = Balance(Store, i)
                      /\ s.users[i].referralRewardClaimed = users[i].referralRewardClaimed

\* a deposit of 100 or more by a referred user has been rejected
C11_Witness ==
    \E t \in DOMAIN transactions :
        /\ transactions[t].status = "rejected"
        /\ transactions[t].type = "deposit"
        /\ parseFloat(transactions[t].amount) >= REFERRAL_THRESHOLD
        /\ users[transactions[t].userId].referredBy # NoCode
        /\ statusUpdates = 1

\* a === b of two Numbers: false when either is NaN
StrictEquals(a, b) == a # NaN /\ b # NaN /\ a = b

\* C12: a successful POST /api/balance with amount a by the session user u
\* adds exactly one transaction of type deposit, with status pending, amount
\* a and owner u, and u's balance after the request is the balance before it
\* plus a; a is any amount the route accepts.
C12_DepositCreditsAmount ==
    \A u \in DOMAIN users, amount \in BodyAmounts :
        LET s == DepositHandler(Store, u, amount, "UTR")
            deposits == { t \in NewTx(Store, s) : s.transactions[t].type = "deposit" }
        IN  /\ ~s.thrown
            /\ Cardinality(deposits) = 1
            /\ \A t \in deposits :
                   /\ s.transactions[t].status = "pending"
                   /\ s.transactions[t].userId = u
                   /\ StrictEquals(parseFloat(s.transactions[t].amount),
                                   parseFloat(amount))
            /\ \A t \in DOMAIN transactions : s.transactions[t] = transactions[t]
            /\ StrictEquals(Balance(s, u), Add(Balance(Store, u), parseFloat(amount)))

\* the amounts of the approved transactions with ids up to n, added up
RECURSIVE ApprovedTotal(_)
ApprovedTotal(n) ==
    IF n = 0 THEN 0
    ELSE ApprovedTotal(n - 1) +
         (IF n \in DOMAIN transactions /\ transactions[n].status = "approved"
          THEN parseFloat(transactions[n].amount) ELSE 0)

\* C13: getAdminStats().totalDeposits is the sum of the amounts of all
\* approved transactions, whatever their type and owner, and totalUsers is
\* the number of users in the store.
C13_AdminStatsTotals ==
    /\ parseFloat(getAdminStats(Store).totalDeposits) = ApprovedTotal(currentTransactionId - 1)
    /\ getAdminStats(Store).totalDeposits = NumberToString(ApprovedTotal(currentTransactionId - 1))
    /\ getAdminStats(Store).totalUsers = currentId - 1
    /\ getAdminStats(Store).totalUsers = Cardinality(DOMAIN users)

\* an approved deposit of one user and an approved referral bonus of another
\* are both in the total
C13_Witness ==
    \E t1, t2 \in DOMAIN transactions :
        /\ transactions[t1].status = "approved"
        /\ transactions[t1].type = "deposit"
        /\ transactions[t2].status = "approved"
        /\ transactions[t2].type = "referral_bonus"
        /\ transactions[t1].userId # transactions[t2].userId
        /\ parseFloat(getAdminStats(Store).totalDeposits) =
               parseFloat(transactions[t1].amount) + REFERRAL_BONUS

\* C14: no two users have the same referCode.
C14_ReferCodeUnique ==
    \A i, j \in DOMAIN users :
        users[i].referCode = users[j].referCode => i = j

\* C15: no two users have the same username, in every interleaving of
\* overlapping POST /api/register and POST /api/login requests.
C15_UsernameUnique ==
    \A i, j \in DOMAIN users :
        users[i].username = users[j].username => i = j

\* C16: POST /api/register answers 400 and leaves the users as they are when
\* the username is taken or the referralCode of the body is no user's
\* referCode; otherwise it creates exactly one user with balance 0,
\* referralRewardClaimed no and referredBy the code of the body (none: unset).
C16_RegisterContract ==
    /\ [](\A username \in Usernames, password \in Passwords,
             referralCode \in ReferCodes \cup {NoCode}, code \in ReferCodes :
              LET r == RegisterRoute(Store, username, password, referralCode, code)
                  taken == \E i \in DOMAIN users : users[i].username = username
                  invalid == /\ referralCode # NoCode
                             /\ \A i \in DOMAIN users : users[i].referCode # referralCode
              IN  IF taken \/ invalid
                  THEN r.code = 400 /\ r.store = Store
                  ELSE /\ r.code = 201
                       /\ DOMAIN r.store.users = DOMAIN users \cup {currentId}
                       /\ currentId \notin DOMAIN users
                       /\ r.store.currentId = currentId + 1
                       /\ \A i \in DOMAIN users : r.store.users[i] = users[i]
                       /\ r.store.transactions = transactions
                       /\ r.store.users[currentId].username = username
                       /\ r.store.users[currentId].walletBalance = <<"0">>
                       /\ Balance(r.store, currentId) = 0
                       /\ r.store.users[currentId].referralRewardClaimed = "no"
                       /\ r.store.users[currentId].referredBy = referralCode)
    \* the same of the request's turns, whatever runs between them
    /\ [][/\ \A p \in DOMAIN procs' \ DOMAIN procs :
                procs'[p].pc = "reg_hash" =>
                    /\ \A i \in DOMAIN users : users[i].username # procs'[p].username
                    /\ procs'[p].referredBy # NoCode =>
                           \E i \in DOMAIN users :
                               users[i].referCode = procs'[p].referredBy
                    /\ users' = users
          /\ \A p \in DOMAIN procs :
                (procs[p].pc = "reg_hash" /\ procs'[p].pc = "reg_fetch") =>
                    /\ DOMAIN users' = DOMAIN users \cup {currentId}
                    /\ currentId \notin DOMAIN users
                    /\ \A i \in DOMAIN users : users'[i] = users[i]
                    /\ transactions' = transactions
                    /\ users'[currentId].username = procs[p].username
                    /\ users'[currentId].walletBalance = <<"0">>
                    /\ users'[currentId].referralRewardClaimed = "no"
                    /\ users'[currentId].referredBy = procs[p].referredBy
                    /\ procs'[p].userId = currentId
          /\ \A p \in DOMAIN procs :
                (procs[p].pc = "reg_fetch" /\ procs'[p].pc = "done") =>
                    /\ users' = users
                    /\ procs'[p].session = procs[p].userId]_vars

\* a user registered with a referral code is in the store, and a further
\* request with a taken username or with an unknown code is answered 400
C16_Witness ==
    /\ \E u \in DOMAIN users :
           /\ users[u].referredBy # NoCode
           /\ users[u].referralRewardClaimed = "no"
           /\ RegisterRoute(Store, users[u].username, "pw", NoCode, "USER00A1").code = 400
    /\ \E c \in ReferCodes :
           /\ getUserByReferCode(Store, c) = 0
           /\ \A name \in Usernames : RegisterRoute(Store, name, "pw", c, c).code = 400

\* C17: a request to one of the three admin routes from a caller without a
\* session, or whose session username is not the admin account name, is
\* answered 401 and leaves the store, hence every transaction status and
\* every wallet balance, as it is.
C17_AdminRoutesRefuse ==
    \A actor \in 0..MaxUsers :
        (actor \notin DOMAIN users \/ users[actor].username # "noobru") =>
            /\ AdminStatsRoute(Store, actor) = [code |-> 401, store |-> Store, body |-> <<>>]
            /\ AdminPendingRoute(Store, actor) = [code |-> 401, store |-> Store, body |-> <<>>]
            /\ \A id \in 0..(MaxTx + 1), status \in StatusInputs :
                   AdminUpdateRoute(Store, actor, id, status) =
                       [code |-> 401, store |-> Store]

\* with the admin and a pending deposit in the store, the deposit's owner asks
\* for its approval and is refused, where the admin would be answered 200
C17_Witness ==
    \E a, u \in DOMAIN users, t \in DOMAIN transactions :
        /\ users[a].username = "noobru"
        /\ users[u].username # "noobru"
        /\ transactions[t].status = "pending"
        /\ transactions[t].userId = u
        /\ AdminUpdateRoute(Store, u, t, "approved").code = 401
        /\ AdminUpdateRoute(Store, a, t, "approved").code = 200

\* C18: every user's wallet balance is at least 0, for any sequence of
\* deposits whose body the server accepts, admin approvals and referral payouts.
C18_BalanceNonNegative ==
    \A i \in DOMAIN users : GreaterOrEqual(Balance(Store, i), 0)

\* C19: every transaction's status is one of pending, approved, rejected, for
\* any body the admin sends to POST /api/admin/update-transaction/:id.
C19_StatusInDomain ==
    \A t \in DOMAIN transactions :
        transactions[t].status \in {"pending", "approved", "rejected"}

\* C20: updateTransactionStatus with an id that names no transaction, and
\* updateWalletBalance with an id that names no user, each throw and leave all
\* users and transactions unchanged; a successful updateWalletBalance changes
\* only that user's walletBalance, to the previous balance plus the amount.
C20_NotFoundAndCredit ==
    /\ \A id \in 0..(MaxTx + 2), status \in StatusInputs :
           id \notin DOMAIN transactions =>
               LET s == updateTransactionStatus(Store, id, status)
               IN  s.thrown /\ s.users = users /\ s.transactions = transactions
    /\ \A userId \in 0..(MaxUsers + 1), amount \in DepositAmounts \cup {REFERRAL_BONUS} :
           LET s == updateWalletBalance(Store, userId, amount)
           IN  IF userId \notin DOMAIN users
               THEN s.thrown /\ s.users = users /\ s.transactions = transactions
               ELSE /\ ~s.thrown
                    /\ s.transactions = transactions
                    /\ DOMAIN s.users = DOMAIN users
                    /\ \A i \in DOMAIN users \ {userId} : s.users[i] = users[i]
                    /\ [s.users[userId] EXCEPT !.walletBalance = <<>>] =
                           [users[userId] EXCEPT !.walletBalance = <<>>]
                    /\ Balance(s, userId) = Balance(Store, userId) + amount

\* a user has been credited, and the next calls with the ids the store has
\* not handed out yet throw
C20_Witness ==
    /\ \E u \in DOMAIN users :
           /\ Balance(Store, u) > 0
           /\ users[u].referralRewardClaimed = "yes"
    /\ updateTransactionStatus(Store, currentTransactionId, "approved").thrown
    /\ updateWalletBalance(Store, currentId, REFERRAL_BONUS).thrown

\* C21: getTransactions(userId) returns exactly the transactions owned by
\* userId, each once, newest first: of any two of them the one created later
\* (the one with the higher id) never comes after the one created earlier.
C21_NewestFirst ==
    \A u \in DOMAIN users :
        LET list == getTransactions(Store, u)
        IN  /\ { list[k].id : k \in 1..Len(list) } =
                   { t \in DOMAIN transactions : transactions[t].userId = u }
            /\ \A k \in 1..Len(list) : list[k] = transactions[list[k].id]
            /\ \A j, k \in 1..Len(list) :
                   j < k => /\ list[j].id # list[k].id
                            /\ list[j].id > list[k].id

\* C22: getPendingTransactions() returns exactly the transactions of all users
\* whose status is pending, each with the username of its owner, and a
\* transaction that has been approved or rejected is in no later result.
C22_PendingList ==
    /\ [](LET list == getPendingTransactions(Store)
          IN  /\ PendingIds(Store) =
                     { t \in DOMAIN transactions : transactions[t].status = "pending" }
              /\ \A j, k \in 1..Len(list) : j # k => list[j].id # list[k].id
              /\ \A k \in 1..Len(list) :
                     /\ list[k].username = users[list[k].userId].username
                     /\ \A f \in DOMAIN transactions[list[k].id] :
                            list[k][f] = transactions[list[k].id][f])
    /\ [][\A t \in DOMAIN transactions :
              transactions[t].status \in {"approved", "rejected"}
                  => t \notin PendingIds(Store')]_vars

\* the sum of the amounts of the records ids of store s that userId owns
RECURSIVE OwnedAmounts(_, _, _)
OwnedAmounts(s, ids, userId) ==
    IF ids = {} THEN 0
    ELSE LET id == FirstId(ids)
         IN  (IF s.transactions[id].userId = userId
              THEN parseFloat(s.transactions[id].amount) ELSE 0)
             + OwnedAmounts(s, ids \ {id}, userId)

\* C23: every operation that changes a user's wallet balance also appends a
\* transaction record of that user for the credited amount: in a step the
\* balance of a user changes by the sum of the amounts of the records the
\* step adds for that user.
C23_CreditHasRecord ==
    [][\A u \in DOMAIN users :
          LET after == [users |-> users', transactions |-> transactions']
          IN  Balance(after, u) - Balance(Store, u) =
                  OwnedAmounts(after, NewTx(Store, after), u)]_vars

\* C24: after a transaction is created its id, userId, amount, utrNumber, type
\* and createdAt never change and it is never removed; only its status can
\* change.  A created transaction gets an id no earlier transaction has, a
\* reading of the clock not before those of the earlier records, status
\* pending, and type deposit unless the caller (the referral payout) passes
\* another type.
C24_TransactionFrame ==
    /\ [](\A t \in DOMAIN transactions :
              transactions[t].id = t /\ t < currentTransactionId)
    /\ [][/\ \A t \in DOMAIN transactions :
                /\ t \in DOMAIN transactions'
                /\ [transactions'[t] EXCEPT !.status = transactions[t].status]
                       = transactions[t]
          /\ \A t \in DOMAIN transactions' \ DOMAIN transactions :
                /\ t >= currentTransactionId
                /\ transactions'[t].status = "pending"
                /\ transactions'[t].createdAt >= now
                /\ transactions'[t].createdAt <= now'
                /\ transactions'[t].type =
                       (IF transactions'[t].utrNumber = "UTR"
                        THEN "deposit" ELSE "referral_bonus")]_vars

\* a record stamped after the clock has moved exists beside an older record
\* whose status an approval has changed
C24_Witness ==
    \E t1, t2 \in DOMAIN transactions :
        /\ transactions[t1].status = "approved"
        /\ transactions[t1].createdAt < transactions[t2].createdAt
        /\ transactions[t1].createdAt < now

\* the owner is referred, has not claimed the reward, and amount is 100 or more
MayReward(s, owner, amount) ==
    /\ s.users[owner].referredBy # NoCode
    /\ s.users[owner].referralRewardClaimed # "yes"
    /\ amount >= REFERRAL_THRESHOLD

\* from store before to store after no referral_bonus record is added, no
\* referralRewardClaimed changes and only owner's balance may change
NoRewardEffect(before, after, owner) ==
    /\ \A t \in NewTx(before, after) : after.transactions[t].type # "referral_bonus"
    /\ \A i \in DOMAIN before.users :
           /\ after.users[i].referralRewardClaimed = before.users[i].referralRewardClaimed
           /\ i # owner => after.users[i] = before.users[i]

\* C25: a deposit or an approval creates referral_bonus transactions, sets
\* referralRewardClaimed or changes the balance of a user other than the
\* owner only if the owner is referred, has not claimed the reward and the
\* amount is 100 or more.  An unreferred user who deposits 150 has 150 more
\* and no referral_bonus record is added.
C25_RewardOnlyIfQualified ==
    /\ \A u \in DOMAIN users, amount \in AmountInputs :
           LET s == DepositHandler(Store, u, amount, "UTR")
           IN  /\ ~MayReward(Store, u, parseFloat(amount)) => NoRewardEffect(Store, s, u)
               /\ (users[u].referredBy = NoCode /\ parseFloat(amount) = 150) =>
                      Balance(s, u) = Balance(Store, u) + 150
    /\ \A t \in DOMAIN transactions, status \in StatusInputs :
           LET owner == transactions[t].userId
               s == AdminUpdateHandler(Store, t, status)
           IN  ~MayReward(Store, owner, parseFloat(transactions[t].amount))
                   => NoRewardEffect(Store, s, owner)

\* an unreferred user has deposited 150, a referred user who has not claimed
\* the reward has deposited 50, and the store holds no referral_bonus record
C25_Witness ==
    /\ \E t \in DOMAIN transactions :
           /\ users[transactions[t].userId].referredBy = NoCode
           /\ parseFloat(transactions[t].amount) = 150
    /\ \E t \in DOMAIN transactions :
           /\ users[transactions[t].userId].referredBy # NoCode
           /\ users[transactions[t].userId].referralRewardClaimed = "no"
           /\ parseFloat(transactions[t].amount) = 50
    /\ \A t \in DOMAIN transactions : transactions[t].type = "deposit"

\* C26: in every interleaving of overlapping requests the referral reward runs
\* at most once per referee: the referrer is credited 30 at most once for that
\* referee and at most two referral_bonus transactions result.
C26_RewardOnceUnderOverlap ==
    \A u \in DOMAIN users :
        /\ Cardinality(ReferrerBonuses(Store, u)) <= Cardinality(Namesakes(Store, u))
        /\ Cardinality(RefereeBonuses(Store, u) \cup ReferrerBonuses(Store, u))
               <= 1 + Cardinality(Namesakes(Store, u))

\* C27: over the lifetime of a deposit transaction, from POST /api/balance
\* through any sequence of approvals and rejections, its amount is added to
\* the owner's balance at most once: no balance exceeds the sum of the
\* amounts of the owner's transactions.
C27_AmountCreditedOnce ==
    \A u \in DOMAIN users :
        Balance(Store, u) <= OwnedAmounts(Store, DOMAIN transactions, u)

\* C28: a session that the admin routes accept was established by a login
\* that passed isAdminCredentials; no register or login request made without
\* the admin password yields such a session.
C28_AdminSessionNeedsCredentials ==
    \A p \in DOMAIN procs :
        (/\ procs[p].pc = "done"
         /\ procs[p].session # 0
         /\ IsAdmin(Store, procs[p].session))
            => procs[p].admin

\* the users whose referredBy is the referCode of u
ReferredBy(u) ==
    { v \in DOMAIN users : users[v].referredBy = users[u].referCode }

\* C29: for every user u, getReferralStats(u.id).totalInvites is the number of
\* users that registered with u's referral code, and successfulReferrals is
\* the number of those whose referral reward has been paid.
C29_ReferralStats ==
    \A u \in DOMAIN users :
        LET stats == getReferralStats(Store, u)
        IN  /\ stats.totalInvites = Cardinality(ReferredBy(u))
            /\ stats.successfulReferrals =
                   Cardinality({ v \in ReferredBy(u) :
                                   users[v].referralRewardClaimed = "yes" })

\* C30: no credit is lost when calls of updateWalletBalance for one user
\* overlap at the await between the read and the write: once every request
\* is answered, a user of a store with deposits only, none of them paying a
\* reward or touched by the admin, holds the sum of the deposits.
C30_NoLostCredit ==
    (/\ \A p \in DOMAIN procs : procs[p].pc = "done"
     /\ \A t \in DOMAIN transactions :
            transactions[t].type = "deposit" /\ transactions[t].status = "pending")
        => \A u \in DOMAIN users :
               Balance(Store, u) = OwnedAmounts(Store, DOMAIN transactions, u)

====
